---- MODULE Spec2Model ----
(***************************************************************************)
(* WS2812B_ColorFX: the WS2812B pulse buffer (WS2812B.c), its integer      *)
(* HSV/HSL conversions, the PWM+DMA transport it is handed to, and the     *)
(* effect engine that drives it (ws2812b_Effects.c).                       *)
(***************************************************************************)
EXTENDS Integers, Sequences, FiniteSets, TLC

\* ------------------------------------------------------------------------
\* Program constants
\* ------------------------------------------------------------------------
LED_NUM == 8
WS2812B_DATA_SIZE == 24 * LED_NUM
RESET_LEN == 50
BUF_LEN == WS2812B_DATA_SIZE + RESET_LEN
HIGH_CODE == 58
LOW_CODE == 29

\* ------------------------------------------------------------------------
\* Bounds of the model
\* ------------------------------------------------------------------------
MaxOps == 3
MaxCalls == 2
MaxTicks == 3
MaxHue == 1079
MaxWindows == 7
MaxRunTicks == 365

\* ------------------------------------------------------------------------
\* C integer arithmetic
\* ------------------------------------------------------------------------
U8(x) == x % 256
U16(x) == x % 65536

\* uint32_t as two 16-bit halves <<high, low>>
ToU32(n) == <<(n \div 65536) % 65536, n % 65536>>
Add32(a, b) ==
    LET lo == a[2] + b[2]
    IN  <<(a[1] + b[1] + (lo \div 65536)) % 65536, lo % 65536>>
Sub32_nowrap(a, b) ==
    IF a[1] < b[1] \/ (a[1] = b[1] /\ a[2] < b[2]) THEN <<0, 0>>
    ELSE LET lo == a[2] - b[2]
         IN  <<a[1] - b[1] - (IF lo < 0 THEN 1 ELSE 0), lo % 65536>>
Sub32(a, b) ==
    LET lo == a[2] - b[2]
    IN  <<(a[1] - b[1] - (IF lo < 0 THEN 1 ELSE 0)) % 65536, lo % 65536>>
Gt32(a, b) == a[1] > b[1] \/ (a[1] = b[1] /\ a[2] > b[2])

\* C division truncates toward zero (b > 0)
CDiv(a, b) == IF a >= 0 THEN a \div b ELSE -((-a) \div b)

\* bit k of a non-negative word
Bit(w, k) == (w \div (2 ^ k)) % 2

\* ------------------------------------------------------------------------
\* Colour space conversions (WS2812B.c)
\* ------------------------------------------------------------------------
RGB(r, g, b) == [r |-> r, g |-> g, b |-> b]

hsv_to_rgb_nowrap(h, s, v) ==
    IF s = 0
    THEN LET grey == U8((v * 255) \div 100) IN RGB(grey, grey, grey)
    ELSE LET hi   == h \div 60
             f    == U8(((h % 60) * 255) \div 60)
             v255 == U8((v * 255) \div 100)
             s255 == U8((s * 255) \div 100)
             p    == U8((v255 * (255 - s255)) \div 255)
             q    == U8((v255 * (255 - f)) \div 255)
             t    == U8((v255 * f) \div 255)
         IN  CASE hi = 0 -> RGB(v255, t, p)
               [] hi = 1 -> RGB(q, v255, p)
               [] hi = 2 -> RGB(p, v255, t)
               [] hi = 3 -> RGB(p, q, v255)
               [] hi = 4 -> RGB(t, p, v255)
               [] hi = 5 -> RGB(v255, p, q)
               [] OTHER  -> RGB(0, 0, 0)

hsv_to_rgb_swapped(h, s, v) ==
    IF s = 0
    THEN LET grey == U8((v * 255) \div 100) IN RGB(grey, grey, grey)
    ELSE LET h1   == h % 360
             hi   == h1 \div 60
             f    == U8(((h1 % 60) * 255) \div 60)
             v255 == U8((v * 255) \div 100)
             s255 == U8((s * 255) \div 100)
             p    == U8((v255 * (255 - s255)) \div 255)
             q    == U8((v255 * (255 - f)) \div 255)
             t    == U8((v255 * f) \div 255)
         IN  CASE hi = 0 -> RGB(v255, t, p)
               [] hi = 1 -> RGB(t, v255, p)
               [] hi = 2 -> RGB(p, v255, t)
               [] hi = 3 -> RGB(p, q, v255)
               [] hi = 4 -> RGB(t, p, v255)
               [] hi = 5 -> RGB(v255, p, q)

hsv_to_rgb_round(h, s, v) ==
    IF s = 0
    THEN LET grey == U8((v * 255) \div 100) IN RGB(grey, grey, grey)
    ELSE LET h1   == h % 360
             hi   == h1 \div 60
             f    == U8(((h1 % 60) * 255) \div 60)
             v255 == U8((v * 255 + 50) \div 100)
             s255 == U8((s * 255) \div 100)
             p    == U8((v255 * (255 - s255)) \div 255)
             q    == U8((v255 * (255 - f)) \div 255)
             t    == U8((v255 * f) \div 255)
         IN  CASE hi = 0 -> RGB(v255, t, p)
               [] hi = 1 -> RGB(q, v255, p)
               [] hi = 2 -> RGB(p, v255, t)
               [] hi = 3 -> RGB(p, q, v255)
               [] hi = 4 -> RGB(t, p, v255)
               [] hi = 5 -> RGB(v255, p, q)

\* h: uint16_t, s, v: uint8_t.  After h %= 360 the sector hi is in 0..5,
\* so the switch always assigns the three outputs.
hsv_to_rgb(h, s, v) ==
    IF s = 0
    THEN LET grey == U8((v * 255) \div 100) IN RGB(grey, grey, grey)
    ELSE LET h1   == h % 360
             hi   == h1 \div 60
             f    == U8(((h1 % 60) * 255) \div 60)
             v255 == U8((v * 255) \div 100)
             s255 == U8((s * 255) \div 100)
             p    == U8((v255 * (255 - s255)) \div 255)
             q    == U8((v255 * (255 - f)) \div 255)
             t    == U8((v255 * f) \div 255)
         IN  CASE hi = 0 -> RGB(v255, t, p)
               [] hi = 1 -> RGB(q, v255, p)
               [] hi = 2 -> RGB(p, v255, t)
               [] hi = 3 -> RGB(p, q, v255)
               [] hi = 4 -> RGB(t, p, v255)
               [] hi = 5 -> RGB(v255, p, q)

\* p, q, t: uint8_t; the arithmetic is done in int and narrowed on return
hue2rgb(p, q, t) ==
    IF t < 43 THEN U8(p + CDiv((q - p) * t, 43))
    ELSE IF t < 128 THEN q
    ELSE IF t < 171 THEN U8(p + CDiv((q - p) * (171 - t), 43))
    ELSE p

hsl_to_rgb_swapped(h, s, l) ==
    IF s = 0
    THEN LET grey == U8((l * 255) \div 100) IN RGB(grey, grey, grey)
    ELSE LET h255   == U8((h * 255) \div 360)
             l255   == U8((l * 255) \div 100)
             s255   == U8((s * 255) \div 100)
             temp_q == IF l < 50
                       THEN U16(l255 * (255 + s255))
                       ELSE U16(U16(l255 + s255) * 255 - l255 * s255)
             q      == U8(temp_q \div 255)
             p0     == IF 2 * l255 > 255 THEN U8(2 * l255 - q) ELSE 0
             p      == IF l < 50
                       THEN U8((2 * l255 * (255 - s255)) \div 255)
                       ELSE p0
         IN  RGB(hue2rgb(p, q, (h255 + 171) % 256),
                 hue2rgb(p, q, h255),
                 hue2rgb(p, q, (h255 + 85) % 256))

hsl_to_rgb_narrowq(h, s, l) ==
    IF s = 0
    THEN LET grey == U8((l * 255) \div 100) IN RGB(grey, grey, grey)
    ELSE LET h255   == U8((h * 255) \div 360)
             l255   == U8((l * 255) \div 100)
             s255   == U8((s * 255) \div 100)
             temp_q == IF l < 50
                       THEN U8(l255 * (255 + s255))
                       ELSE U8(U8(l255 + s255) * 255 - l255 * s255)
             q      == U8(temp_q \div 255)
             p0     == IF 2 * l255 > 255 THEN U8(2 * l255 - q) ELSE 0
             p      == IF l < 50
                       THEN U8((2 * l255 * (255 - s255)) \div 255)
                       ELSE p0
         IN  RGB(hue2rgb(p, q, (h255 + 85) % 256),
                 hue2rgb(p, q, h255),
                 hue2rgb(p, q, (h255 + 171) % 256))

hsl_to_rgb_nogrey(h, s, l) ==
    LET h255   == U8((h * 255) \div 360)
        l255   == U8((l * 255) \div 100)
        s255   == U8((s * 255) \div 100)
        temp_q == IF l < 50
                  THEN U16(l255 * (255 + s255))
                  ELSE U16(U16(l255 + s255) * 255 - l255 * s255)
        q      == U8(temp_q \div 255)
        p0     == IF 2 * l255 > 255 THEN U8(2 * l255 - q) ELSE 0
        p      == IF l < 50
                  THEN U8((2 * l255 * (255 - s255)) \div 255)
                  ELSE p0
    IN  RGB(hue2rgb(p, q, (h255 + 85) % 256),
            hue2rgb(p, q, h255),
            hue2rgb(p, q, (h255 + 171) % 256))

\* h: uint16_t, s, l: uint8_t
hsl_to_rgb(h, s, l) ==
    IF s = 0
    THEN LET grey == U8((l * 255) \div 100) IN RGB(grey, grey, grey)
    ELSE LET h255   == U8((h * 255) \div 360)
             l255   == U8((l * 255) \div 100)
             s255   == U8((s * 255) \div 100)
             temp_q == IF l < 50
                       THEN U16(l255 * (255 + s255))
                       ELSE U16(U16(l255 + s255) * 255 - l255 * s255)
             q      == U8(temp_q \div 255)
             p0     == IF 2 * l255 > 255 THEN U8(2 * l255 - q) ELSE 0
             p      == IF l < 50
                       THEN U8((2 * l255 * (255 - s255)) \div 255)
                       ELSE p0
         IN  RGB(hue2rgb(p, q, (h255 + 85) % 256),
                 hue2rgb(p, q, h255),
                 hue2rgb(p, q, (h255 + 171) % 256))

\* the chroma endpoints q and p of hsl_to_rgb, for s # 0
hsl_q(s, l) ==
    LET l255   == U8((l * 255) \div 100)
        s255   == U8((s * 255) \div 100)
        temp_q == IF l < 50
                  THEN U16(l255 * (255 + s255))
                  ELSE U16(U16(l255 + s255) * 255 - l255 * s255)
    IN  U8(temp_q \div 255)

hsl_p(s, l) ==
    LET l255 == U8((l * 255) \div 100)
        s255 == U8((s * 255) \div 100)
        p0   == IF 2 * l255 > 255 THEN U8(2 * l255 - hsl_q(s, l)) ELSE 0
    IN  IF l < 50 THEN U8((2 * l255 * (255 - s255)) \div 255) ELSE p0

\* The right-hand sides of the 8-bit locals of hsv_to_rgb, as the C
\* expressions evaluate them in int / unsigned, before the store narrows them
hsv_locals8(h, s, v) ==
    IF s = 0
    THEN {(v * 255) \div 100}
    ELSE LET h1   == h % 360
             f    == ((h1 % 60) * 255) \div 60
             v255 == (v * 255) \div 100
             s255 == (s * 255) \div 100
             p    == (U8(v255) * (255 - U8(s255))) \div 255
             q    == (U8(v255) * (255 - U8(f))) \div 255
             t    == (U8(v255) * U8(f)) \div 255
         IN  {f, v255, s255, p, q, t}

\* the return expression of hue2rgb before it is narrowed to uint8_t
hue2rgb_wide(p, q, t) ==
    IF t < 43 THEN p + CDiv((q - p) * t, 43)
    ELSE IF t < 128 THEN q
    ELSE IF t < 171 THEN p + CDiv((q - p) * (171 - t), 43)
    ELSE p

\* the right-hand side of temp_q (uint16_t) in hsl_to_rgb and the operand of
\* its (uint16_t) cast, before they are narrowed
hsl_locals16(h, s, l) ==
    IF s = 0 THEN {}
    ELSE LET l255 == U8((l * 255) \div 100)
             s255 == U8((s * 255) \div 100)
         IN  IF l < 50
             THEN {l255 * (255 + s255)}
             ELSE {l255 + s255, U16(l255 + s255) * 255 - l255 * s255}

\* the right-hand sides of the 8-bit locals of hsl_to_rgb and the three
\* results of hue2rgb, before the stores narrow them
hsl_locals8(h, s, l) ==
    IF s = 0
    THEN {(l * 255) \div 100}
    ELSE LET h255w  == (h * 255) \div 360
             l255w  == (l * 255) \div 100
             s255w  == (s * 255) \div 100
             h255   == U8(h255w)
             l255   == U8(l255w)
             s255   == U8(s255w)
             temp_q == IF l < 50
                       THEN U16(l255 * (255 + s255))
                       ELSE U16(U16(l255 + s255) * 255 - l255 * s255)
             qw     == temp_q \div 255
             q      == U8(qw)
             p0w    == IF 2 * l255 > 255 THEN 2 * l255 - q ELSE 0
             pw     == IF l < 50
                       THEN (2 * l255 * (255 - s255)) \div 255
                       ELSE p0w
             p      == U8(pw)
         IN  {h255w, l255w, s255w, qw, p0w, pw,
              hue2rgb_wide(p, q, (h255 + 85) % 256),
              hue2rgb_wide(p, q, h255),
              hue2rgb_wide(p, q, (h255 + 171) % 256)}

\* ------------------------------------------------------------------------
\* The pulse buffer (WS2812B.c): pwmData[0 .. BUF_LEN-1]
\* ------------------------------------------------------------------------
BufIdx == 0 .. (BUF_LEN - 1)
ZeroBuf == [k \in BufIdx |-> 0]

\* the 24-bit wire word, GRB order
GRBWord(r, g, b) == g * 65536 + r * 256 + b

EncodePixel_overrun(data, pixel, color) ==
    LET pos == U16(pixel * 24)
    IN  [k \in BufIdx |->
            IF k >= pos /\ k < pos + 24
            THEN IF Bit(color, 23 - (k - pos)) = 1 THEN HIGH_CODE ELSE LOW_CODE
            ELSE IF k = pos + 24 THEN LOW_CODE ELSE data[k]]

EncodePixel(data, pixel, color) ==
    LET pos == U16(pixel * 24)
    IN  [k \in BufIdx |->
            IF k >= pos /\ k < pos + 24
            THEN IF Bit(color, 23 - (k - pos)) = 1 THEN HIGH_CODE ELSE LOW_CODE
            ELSE data[k]]

SetPixelRGB_offbyone(data, pixel, red, green, blue) ==
    IF pixel > LED_NUM THEN data
    ELSE EncodePixel(data, pixel, GRBWord(red, green, blue))

SetPixelRGB_rgborder(data, pixel, red, green, blue) ==
    IF pixel >= LED_NUM THEN data
    ELSE EncodePixel(data, pixel, GRBWord(green, red, blue))

SetPixelRGB(data, pixel, red, green, blue) ==
    IF pixel >= LED_NUM THEN data
    ELSE EncodePixel(data, pixel, GRBWord(red, green, blue))

Clear_notail(data) ==
    [k \in BufIdx |-> IF k < WS2812B_DATA_SIZE THEN LOW_CODE ELSE data[k]]

Clear(data) ==
    [k \in BufIdx |-> IF k < WS2812B_DATA_SIZE THEN LOW_CODE ELSE 0]

RECURSIVE SetAllPixels(_, _, _, _, _)
SetAllPixels(data, led, red, green, blue) ==
    IF led >= LED_NUM THEN data
    ELSE SetAllPixels(SetPixelRGB(data, led, red, green, blue),
                      led + 1, red, green, blue)

ZeroTail(data) ==
    [k \in BufIdx |-> IF k >= WS2812B_DATA_SIZE THEN 0 ELSE data[k]]

SetColorRGB_notail(data, red, green, blue) ==
    SetAllPixels(data, 0, red, green, blue)

SetColorRGB(data, red, green, blue) ==
    ZeroTail(SetAllPixels(data, 0, red, green, blue))

SetColorHSV(data, hue, sat, val) ==
    LET c == hsv_to_rgb(hue, sat, val) IN SetColorRGB(data, c.r, c.g, c.b)

SetPixelHSV(data, pixel, hue, sat, val) ==
    LET c == hsv_to_rgb(hue, sat, val) IN SetPixelRGB(data, pixel, c.r, c.g, c.b)

SetColorHSL(data, hue, sat, light) ==
    LET c == hsl_to_rgb(hue, sat, light) IN SetColorRGB(data, c.r, c.g, c.b)

SetPixelHSL(data, pixel, hue, sat, light) ==
    LET c == hsl_to_rgb(hue, sat, light) IN SetPixelRGB(data, pixel, c.r, c.g, c.b)

\* ------------------------------------------------------------------------
\* State
\* ------------------------------------------------------------------------
VARIABLES
    pwmData,            \* uint16_t pwmData[WS2812B_DATA_SIZE + 50]
    inflight,           \* a transmission was started and has not completed
    txData,             \* contents of pwmData at the latest start of the DMA
    txLen,              \* length handed to the latest start of the DMA
    sends,              \* number of HAL_TIM_PWM_Start_DMA calls so far
    pc,                 \* position of the main thread
    effects,            \* ws2812b_effects_t led_effects
    rainbow_hue,        \* static uint16_t rainbow_hue
    breathe_val,        \* static uint8_t breathe_val
    breathe_dir,        \* static int8_t breathe_dir
    global_brightness,  \* static uint8_t global_brightness
    global_speed,       \* static uint8_t global_speed
    theater_frame,      \* static uint8_t theater_frame
    now,                \* HAL_GetTick()
    last_cycle,         \* static uint32_t last_cycle of WS2812B_Effects_Handle
    ticks,              \* number of WS2812B_Effects_Handle calls completed
    lastOp,             \* the latest call of the driver API and its arguments
    written,            \* per pixel, the colour last written to it (or NoColor)
    nops,               \* number of calls made so far
    arg,                \* input of the conversion under test
    res                 \* output of the conversion under test

vars == <<pwmData, inflight, txData, txLen, sends, pc, effects, rainbow_hue,
          breathe_val, breathe_dir, global_brightness, global_speed, theater_frame, now,
          last_cycle, ticks, lastOp, written, nops, arg, res>>

bufVars == <<pwmData, written>>
dmaVars == <<inflight, txData, txLen, sends>>
fxVars == <<pc, effects, rainbow_hue, breathe_val, breathe_dir,
            global_brightness, global_speed, theater_frame, now, last_cycle, ticks>>
convVars == <<arg, res>>

NoColor == [r |-> -1, g |-> -1, b |-> -1]
NoOp == [op |-> "none", args |-> <<>>]
NoRes == [r |-> -1, g |-> -1, b |-> -1]
NoArg == [fn |-> "none", h |-> 0, s |-> 0, x |-> 0]

\* the zero-initialised global led_effects (main.c)
ZeroEffects ==
    [current_effect |-> 0, hue |-> 0, brightness |-> 0,
     breathe_direction |-> 0, theater_frame |-> 0, effect_speed |-> 0,
     auto_cycle |-> FALSE, cycle_duration |-> 0]

\* static initialisers of ws2812b_Effects.c and WS2812B.c
InitStatics ==
    /\ inflight = FALSE
    /\ txData = ZeroBuf
    /\ txLen = 0
    /\ sends = 0
    /\ pc = "idle"
    /\ effects = ZeroEffects
    /\ rainbow_hue = 0
    /\ breathe_val = 50
    /\ breathe_dir = 1
    /\ global_brightness = 100
    /\ global_speed = 50
    /\ theater_frame = 0
    /\ now = ToU32(0)
    /\ last_cycle = ToU32(0)
    /\ ticks = 0
    /\ lastOp = NoOp
    /\ written = [i \in 0 .. (LED_NUM - 1) |-> NoColor]
    /\ nops = 0

\* ------------------------------------------------------------------------
\* Transport: TIM3 PWM + DMA
\* ------------------------------------------------------------------------
\* HAL_TIM_PWM_Start_DMA(&htim3, TIM_CHANNEL_1, pwmData, WS2812B_DATA_SIZE + 50)
StartDMA ==
    /\ inflight' = TRUE
    /\ txData' = pwmData
    /\ txLen' = WS2812B_DATA_SIZE + 50
    /\ sends' = sends + 1

HAL_TIM_PWM_PulseFinishedCallback_nostop ==
    /\ inflight
    /\ UNCHANGED dmaVars
    /\ UNCHANGED <<bufVars, fxVars, convVars, lastOp, nops>>

\* the transfer-complete interrupt of TIM3: stops the PWM
HAL_TIM_PWM_PulseFinishedCallback ==
    /\ inflight
    /\ inflight' = FALSE
    /\ UNCHANGED <<txData, txLen, sends>>
    /\ UNCHANGED <<bufVars, fxVars, convVars, lastOp, nops>>

\* ------------------------------------------------------------------------
\* Driver API calls (WS2812B.c), made in any order by a caller
\* ------------------------------------------------------------------------
PixelArgs == {1, LED_NUM - 1, LED_NUM, 65535}
RGBArgs == {<<255, 0, 128>>, <<1, 170, 85>>}
HSVArgs == {<<120, 100, 50>>, <<400, 60, 100>>}
HSLArgs == {<<300, 100, 50>>, <<30, 0, 40>>}

WriteOne(pixel, c) ==
    IF pixel < LED_NUM THEN [written EXCEPT ![pixel] = c] ELSE written

WriteAll(c) == [i \in 0 .. (LED_NUM - 1) |-> c]

Call(op, args) ==
    /\ pc = "idle"
    /\ nops < MaxOps
    /\ nops' = nops + 1
    /\ lastOp' = [op |-> op, args |-> args]
    /\ UNCHANGED <<fxVars, convVars>>

WS2812B_Send ==
    /\ Call("Send", <<>>)
    /\ StartDMA
    /\ UNCHANGED bufVars

WS2812B_SetPixelRGB ==
    \E pixel \in PixelArgs, c \in RGBArgs :
        /\ Call("SetPixelRGB", <<pixel, c[1], c[2], c[3]>>)
        /\ pwmData' = SetPixelRGB(pwmData, pixel, c[1], c[2], c[3])
        /\ written' = WriteOne(pixel, RGB(c[1], c[2], c[3]))
        /\ UNCHANGED dmaVars

WS2812B_Clear ==
    /\ Call("Clear", <<>>)
    /\ pwmData' = Clear(pwmData)
    /\ written' = WriteAll(RGB(0, 0, 0))
    /\ UNCHANGED dmaVars

WS2812B_SetColorRGB ==
    \E c \in RGBArgs :
        /\ Call("SetColorRGB", <<c[1], c[2], c[3]>>)
        /\ pwmData' = SetColorRGB(pwmData, c[1], c[2], c[3])
        /\ written' = WriteAll(RGB(c[1], c[2], c[3]))
        /\ UNCHANGED dmaVars

WS2812B_SetColorHSV ==
    \E c \in HSVArgs :
        /\ Call("SetColorHSV", <<c[1], c[2], c[3]>>)
        /\ pwmData' = SetColorHSV(pwmData, c[1], c[2], c[3])
        /\ written' = WriteAll(hsv_to_rgb(c[1], c[2], c[3]))
        /\ UNCHANGED dmaVars

WS2812B_SetPixelHSV ==
    \E pixel \in PixelArgs, c \in HSVArgs :
        /\ Call("SetPixelHSV", <<pixel, c[1], c[2], c[3]>>)
        /\ pwmData' = SetPixelHSV(pwmData, pixel, c[1], c[2], c[3])
        /\ written' = WriteOne(pixel, hsv_to_rgb(c[1], c[2], c[3]))
        /\ UNCHANGED dmaVars

WS2812B_SetColorHSL ==
    \E c \in HSLArgs :
        /\ Call("SetColorHSL", <<c[1], c[2], c[3]>>)
        /\ pwmData' = SetColorHSL(pwmData, c[1], c[2], c[3])
        /\ written' = WriteAll(hsl_to_rgb(c[1], c[2], c[3]))
        /\ UNCHANGED dmaVars

WS2812B_SetPixelHSL ==
    \E pixel \in PixelArgs, c \in HSLArgs :
        /\ Call("SetPixelHSL", <<pixel, c[1], c[2], c[3]>>)
        /\ pwmData' = SetPixelHSL(pwmData, pixel, c[1], c[2], c[3])
        /\ written' = WriteOne(pixel, hsl_to_rgb(c[1], c[2], c[3]))
        /\ UNCHANGED dmaVars

NextBuf ==
    \/ WS2812B_Send
    \/ WS2812B_SetPixelRGB
    \/ WS2812B_Clear
    \/ WS2812B_SetColorRGB
    \/ WS2812B_SetColorHSV
    \/ WS2812B_SetPixelHSV
    \/ WS2812B_SetColorHSL
    \/ WS2812B_SetPixelHSL
    \/ HAL_TIM_PWM_PulseFinishedCallback

\* the driver called on the zero-initialised buffer
InitBuf ==
    /\ InitStatics
    /\ pwmData = ZeroBuf
    /\ arg = NoArg
    /\ res = NoRes

SpecBuf == InitBuf /\ [][NextBuf]_vars

\* ------------------------------------------------------------------------
\* Sending and completion: the caller fills the strip and sends; the
\* transport calls the completion callback after a start, and a timer other
\* than TIM3 may call it at any time
\* ------------------------------------------------------------------------
\* HAL_TIM_PWM_PulseFinishedCallback(htim) with htim # &htim3: the body of
\* the if is skipped
OtherTimerPulseFinished ==
    /\ Call("PulseFinishedCallback", <<"other">>)
    /\ UNCHANGED <<bufVars, dmaVars>>

NextSend ==
    \/ WS2812B_Send
    \/ WS2812B_Clear
    \/ WS2812B_SetColorRGB
    \/ WS2812B_SetPixelRGB
    \/ OtherTimerPulseFinished
    \/ HAL_TIM_PWM_PulseFinishedCallback

\* the transport calls the completion callback after every start
SpecSend ==
    /\ InitBuf
    /\ [][NextSend]_vars
    /\ WF_vars(HAL_TIM_PWM_PulseFinishedCallback)

\* the driver called on a buffer holding arbitrary codes, reset region included
StaleBufs ==
    { ZeroBuf,
      [k \in BufIdx |-> IF k % 3 = 0 THEN 7 ELSE HIGH_CODE],
      [k \in BufIdx |-> IF k < WS2812B_DATA_SIZE THEN 0 ELSE HIGH_CODE] }

InitAny ==
    /\ InitStatics
    /\ pwmData \in StaleBufs
    /\ arg = NoArg
    /\ res = NoRes

SpecAny == InitAny /\ [][NextBuf]_vars

\* ------------------------------------------------------------------------
\* The conversions on their own: an input is drawn, then converted
\* ------------------------------------------------------------------------
HueArgs == 0 .. MaxHue
PctArgs == {0, 1, 2, 10, 20, 25, 30, 40, 49, 50, 51, 60, 75, 90, 99, 100,
            101, 150, 200}

InitConv ==
    /\ InitStatics
    /\ pwmData = ZeroBuf
    /\ arg \in [fn : {"none"}, h : HueArgs, s : PctArgs, x : PctArgs]
    /\ res = NoRes

Convert_hsv ==
    /\ arg.fn = "none"
    /\ arg' = [arg EXCEPT !.fn = "hsv"]
    /\ res' = hsv_to_rgb(arg.h, arg.s, arg.x)
    /\ UNCHANGED <<bufVars, dmaVars, fxVars, lastOp, nops>>

Convert_hsl ==
    /\ arg.fn = "none"
    /\ arg' = [arg EXCEPT !.fn = "hsl"]
    /\ res' = hsl_to_rgb(arg.h, arg.s, arg.x)
    /\ UNCHANGED <<bufVars, dmaVars, fxVars, lastOp, nops>>

NextConv == Convert_hsv \/ Convert_hsl

SpecConv == InitConv /\ [][NextConv]_vars

\* ------------------------------------------------------------------------
\* The effect engine (ws2812b_Effects.c)
\* ------------------------------------------------------------------------
EFFECT_STATIC_COLOR == 0
EFFECT_RAINBOW_CHASE == 1
EFFECT_FIRE == 2
EFFECT_BREATHE == 3
EFFECT_THEATER_CHASE == 4
EFFECT_TWINKLE == 5
EffectCount == 6

RECURSIVE RainbowPixels_wheel(_, _, _, _)
RainbowPixels_wheel(data, i, base, val) ==
    IF i >= LED_NUM THEN data
    ELSE RainbowPixels_wheel(
             SetPixelHSV(data, i, (base + ((i * 255) \div LED_NUM)) % 360,
                         100, val),
             i + 1, base, val)

\* WS2812B_Rainbow(COLOR_HSV), the pixel loop
RECURSIVE RainbowPixels(_, _, _, _)
RainbowPixels(data, i, base, val) ==
    IF i >= LED_NUM THEN data
    ELSE RainbowPixels(
             SetPixelHSV(data, i, (base + ((i * 360) \div LED_NUM)) % 360,
                         100, val),
             i + 1, base, val)

\* the fire frame: a randomised value per pixel over an orange-red hue band
FireSeeds == {0, 1}
FireHue(seed, i) == (seed * 7 + i * 5) % 30
FireVal(seed, i) == 40 + ((seed * 31 + i * 17) % 60)

RECURSIVE FirePixels(_, _, _)
FirePixels(data, i, seed) ==
    IF i >= LED_NUM THEN data
    ELSE FirePixels(
             SetPixelHSV(data, i, FireHue(seed, i), 100, FireVal(seed, i)),
             i + 1, seed)

\* the theater chase frame: every third pixel lit, the others off
RECURSIVE TheaterPixels(_, _, _, _)
TheaterPixels(data, i, hue, frame) ==
    IF i >= LED_NUM THEN data
    ELSE TheaterPixels(
             IF i % 3 = frame
             THEN SetPixelHSV(data, i, hue, 100, 100)
             ELSE SetPixelRGB(data, i, 0, 0, 0),
             i + 1, hue, frame)

CycleElapsed_ge ==
    /\ effects.auto_cycle
    /\ ~Gt32(ToU32(effects.cycle_duration), Sub32(now, last_cycle))

\* the test of the auto cycle, in uint32_t arithmetic
CycleElapsed ==
    /\ effects.auto_cycle
    /\ Gt32(Sub32(now, last_cycle), ToU32(effects.cycle_duration))

\* the argument of the HAL_Delay that ends the effect's own function
EffectDelayMs(e) ==
    IF e = EFFECT_BREATHE THEN 150 - global_speed ELSE 100 - global_speed

\* the arguments of the HAL_Delay that ends the effect functions the handler
\* does not call: WS2812B_RainbowChase, WS2812B_TheaterChase, WS2812B_PastelWave
RainbowChaseDelayMs == 100 - global_speed
TheaterChaseDelayMs == 200 - global_speed * 2
PastelWaveDelayMs == 100 - global_speed

HasOwnSend(e) ==
    e \in {EFFECT_STATIC_COLOR, EFFECT_RAINBOW_CHASE, EFFECT_FIRE, EFFECT_BREATHE}

HasOwnDelay(e) ==
    e \in {EFFECT_RAINBOW_CHASE, EFFECT_FIRE, EFFECT_BREATHE}

\* WS2812B_Breathe: breathe_val += breathe_dir; (uint8_t += int8_t)
BreatheValAfter(val, dir) == U8(val + dir)

BreatheDirAfter_high(bv, dir) == IF bv >= 90 THEN -dir ELSE dir

\* if (breathe_val >= 90 || breathe_val <= 10) breathe_dir = -breathe_dir;
BreatheDirAfter(bv, dir) == IF bv >= 90 \/ bv <= 10 THEN -dir ELSE dir

HandleCycle_keeptime ==
    /\ pc = "idle"
    /\ IF CycleElapsed
       THEN /\ effects' = [effects EXCEPT
                             !.current_effect = (effects.current_effect + 1) % 6]
            /\ last_cycle' = last_cycle
            /\ pwmData' = Clear(pwmData)
       ELSE UNCHANGED <<effects, last_cycle, pwmData>>
    /\ pc' = "draw"
    /\ UNCHANGED <<rainbow_hue, breathe_val, breathe_dir, global_brightness,
                   global_speed, theater_frame, now, ticks>>
    /\ UNCHANGED <<dmaVars, convVars, written, lastOp, nops>>

\* WS2812B_Effects_Handle, the auto cycle: on a transition the next effect
\* is selected, last_cycle takes the tick and the buffer is cleared
HandleCycle ==
    /\ pc = "idle"
    /\ IF CycleElapsed
       THEN /\ effects' = [effects EXCEPT
                             !.current_effect = (effects.current_effect + 1) % 6]
            /\ last_cycle' = now
            /\ pwmData' = Clear(pwmData)
       ELSE UNCHANGED <<effects, last_cycle, pwmData>>
    /\ pc' = "draw"
    /\ UNCHANGED <<rainbow_hue, breathe_val, breathe_dir, global_brightness,
                   global_speed, theater_frame, now, ticks>>
    /\ UNCHANGED <<dmaVars, convVars, written, lastOp, nops>>

HandleDraw_nowrap ==
    /\ pc = "draw"
    /\ LET e    == effects.current_effect
           bv   == BreatheValAfter(breathe_val, breathe_dir)
       IN  /\ \/ /\ e = EFFECT_STATIC_COLOR
                 /\ pwmData' = SetColorHSV(pwmData, effects.hue, 100,
                                           global_brightness)
                 /\ UNCHANGED <<rainbow_hue, breathe_val, breathe_dir>>
              \/ /\ e = EFFECT_RAINBOW_CHASE
                 /\ pwmData' = RainbowPixels(pwmData, 0, rainbow_hue,
                                             global_brightness)
                 /\ rainbow_hue' = rainbow_hue + 2
                 /\ UNCHANGED <<breathe_val, breathe_dir>>
              \/ /\ e = EFFECT_FIRE
                 /\ \E seed \in FireSeeds : pwmData' = FirePixels(pwmData, 0, seed)
                 /\ UNCHANGED <<rainbow_hue, breathe_val, breathe_dir>>
              \/ /\ e = EFFECT_BREATHE
                 /\ pwmData' = SetColorHSV(pwmData, effects.hue, 100, breathe_val)
                 /\ breathe_val' = bv
                 /\ breathe_dir' = BreatheDirAfter(bv, breathe_dir)
                 /\ UNCHANGED rainbow_hue
              \/ /\ e = EFFECT_THEATER_CHASE
                 /\ pwmData' = TheaterPixels(pwmData, 0, effects.hue,
                                             effects.theater_frame)
                 /\ UNCHANGED <<rainbow_hue, breathe_val, breathe_dir>>
              \/ /\ e = EFFECT_TWINKLE
                 /\ pwmData' = SetColorHSL(pwmData, 300, 100, 50)
                 /\ UNCHANGED <<rainbow_hue, breathe_val, breathe_dir>>
           /\ pc' = IF HasOwnSend(e) THEN "effect_send" ELSE "handle_send"
    /\ UNCHANGED <<effects, last_cycle, global_brightness, global_speed, theater_frame, now,
                   ticks>>
    /\ UNCHANGED <<dmaVars, convVars, written, lastOp, nops>>

\* WS2812B_Effects_Handle, the switch on current_effect up to the frame of
\* the effect being in pwmData
HandleDraw ==
    /\ pc = "draw"
    /\ LET e    == effects.current_effect
           bv   == BreatheValAfter(breathe_val, breathe_dir)
       IN  /\ \/ /\ e = EFFECT_STATIC_COLOR
                 /\ pwmData' = SetColorHSV(pwmData, effects.hue, 100,
                                           global_brightness)
                 /\ UNCHANGED <<rainbow_hue, breathe_val, breathe_dir>>
              \/ /\ e = EFFECT_RAINBOW_CHASE
                 /\ pwmData' = RainbowPixels(pwmData, 0, rainbow_hue,
                                             global_brightness)
                 /\ rainbow_hue' = (rainbow_hue + 2) % 360
                 /\ UNCHANGED <<breathe_val, breathe_dir>>
              \/ /\ e = EFFECT_FIRE
                 /\ \E seed \in FireSeeds : pwmData' = FirePixels(pwmData, 0, seed)
                 /\ UNCHANGED <<rainbow_hue, breathe_val, breathe_dir>>
              \/ /\ e = EFFECT_BREATHE
                 /\ pwmData' = SetColorHSV(pwmData, effects.hue, 100, breathe_val)
                 /\ breathe_val' = bv
                 /\ breathe_dir' = BreatheDirAfter(bv, breathe_dir)
                 /\ UNCHANGED rainbow_hue
              \/ /\ e = EFFECT_THEATER_CHASE
                 /\ pwmData' = TheaterPixels(pwmData, 0, effects.hue,
                                             effects.theater_frame)
                 /\ UNCHANGED <<rainbow_hue, breathe_val, breathe_dir>>
              \/ /\ e = EFFECT_TWINKLE
                 /\ pwmData' = SetColorHSL(pwmData, 300, 100, 50)
                 /\ UNCHANGED <<rainbow_hue, breathe_val, breathe_dir>>
           /\ pc' = IF HasOwnSend(e) THEN "effect_send" ELSE "handle_send"
    /\ UNCHANGED <<effects, last_cycle, global_brightness, global_speed, theater_frame, now,
                   ticks>>
    /\ UNCHANGED <<dmaVars, convVars, written, lastOp, nops>>

\* the WS2812_Send() that ends WS2812B_SolidColor, WS2812B_Rainbow,
\* WS2812B_Fire and WS2812B_Breathe
EffectSend ==
    /\ pc = "effect_send"
    /\ StartDMA
    /\ pc' = IF HasOwnDelay(effects.current_effect)
             THEN "effect_delay" ELSE "handle_send"
    /\ UNCHANGED <<effects, rainbow_hue, breathe_val, breathe_dir,
                   global_brightness, global_speed, theater_frame, now, last_cycle, ticks>>
    /\ UNCHANGED <<bufVars, convVars, lastOp, nops>>

\* the HAL_Delay() that ends WS2812B_Rainbow, WS2812B_Fire, WS2812B_Breathe
EffectDelay ==
    /\ pc = "effect_delay"
    /\ now' = Add32(now, ToU32(EffectDelayMs(effects.current_effect)))
    /\ pc' = "handle_send"
    /\ UNCHANGED <<effects, rainbow_hue, breathe_val, breathe_dir,
                   global_brightness, global_speed, theater_frame, last_cycle, ticks>>
    /\ UNCHANGED <<bufVars, dmaVars, convVars, lastOp, nops>>

HandleSend_nowrap ==
    /\ pc = "handle_send"
    /\ LET e == effects.current_effect
       IN  effects' =
             IF e \in {EFFECT_STATIC_COLOR, EFFECT_BREATHE}
             THEN [effects EXCEPT !.hue = effects.hue + 1]
             ELSE IF e = EFFECT_THEATER_CHASE
             THEN [effects EXCEPT
                     !.theater_frame = (effects.theater_frame + 1) % 3,
                     !.hue = (effects.hue + 5) % 360]
             ELSE effects
    /\ StartDMA
    /\ pc' = "idle"
    /\ ticks' = ticks + 1
    /\ UNCHANGED <<rainbow_hue, breathe_val, breathe_dir, global_brightness,
                   global_speed, theater_frame, now, last_cycle>>
    /\ UNCHANGED <<bufVars, convVars, lastOp, nops>>

\* the rest of WS2812B_Effects_Handle: the phase updates that follow the
\* effect's function in the switch, then the final WS2812_Send()
HandleSend ==
    /\ pc = "handle_send"
    /\ LET e == effects.current_effect
       IN  effects' =
             IF e \in {EFFECT_STATIC_COLOR, EFFECT_BREATHE}
             THEN [effects EXCEPT !.hue = (effects.hue + 1) % 360]
             ELSE IF e = EFFECT_THEATER_CHASE
             THEN [effects EXCEPT
                     !.theater_frame = (effects.theater_frame + 1) % 3,
                     !.hue = (effects.hue + 5) % 360]
             ELSE effects
    /\ StartDMA
    /\ pc' = "idle"
    /\ ticks' = ticks + 1
    /\ UNCHANGED <<rainbow_hue, breathe_val, breathe_dir, global_brightness,
                   global_speed, theater_frame, now, last_cycle>>
    /\ UNCHANGED <<bufVars, convVars, lastOp, nops>>

\* calls of the engine's API between two ticks
EffectArgs == 0 .. (EffectCount - 1)
BrightnessArgs == {80, 200}
SpeedArgs == {0, 40, 255}
DurationArgs == {4000}
DelayArgs == {50, 5000, 5001}

FxCall(op, args) ==
    /\ pc = "idle"
    /\ nops < MaxCalls
    /\ nops' = nops + 1
    /\ lastOp' = [op |-> op, args |-> args]
    /\ UNCHANGED <<pc, ticks, convVars, written>>

WS2812B_Effects_Init_keephue ==
    /\ FxCall("Effects_Init", <<>>)
    /\ effects' = [current_effect |-> EFFECT_RAINBOW_CHASE,
                   hue |-> effects.hue,
                   brightness |-> 50, breathe_direction |-> 1,
                   theater_frame |-> 0, effect_speed |-> 50,
                   auto_cycle |-> TRUE, cycle_duration |-> 5000]
    /\ UNCHANGED <<pwmData, dmaVars, rainbow_hue, breathe_val, breathe_dir,
                   global_brightness, global_speed, theater_frame, now, last_cycle>>

WS2812B_Effects_Init ==
    /\ FxCall("Effects_Init", <<>>)
    /\ effects' = [current_effect |-> EFFECT_RAINBOW_CHASE, hue |-> 0,
                   brightness |-> 50, breathe_direction |-> 1,
                   theater_frame |-> 0, effect_speed |-> 50,
                   auto_cycle |-> TRUE, cycle_duration |-> 5000]
    /\ UNCHANGED <<pwmData, dmaVars, rainbow_hue, breathe_val, breathe_dir,
                   global_brightness, global_speed, theater_frame, now, last_cycle>>

WS2812B_Effects_SetEffect_keepauto ==
    \E new_effect \in EffectArgs :
        /\ FxCall("Effects_SetEffect", <<new_effect>>)
        /\ effects' = [effects EXCEPT !.current_effect = new_effect]
        /\ pwmData' = Clear(pwmData)
        /\ UNCHANGED <<dmaVars, rainbow_hue, breathe_val, breathe_dir,
                       global_brightness, global_speed, theater_frame, now, last_cycle>>

WS2812B_Effects_SetEffect ==
    \E new_effect \in EffectArgs :
        /\ FxCall("Effects_SetEffect", <<new_effect>>)
        /\ effects' = [effects EXCEPT !.current_effect = new_effect,
                                      !.auto_cycle = FALSE]
        /\ pwmData' = Clear(pwmData)
        /\ UNCHANGED <<dmaVars, rainbow_hue, breathe_val, breathe_dir,
                       global_brightness, global_speed, theater_frame, now, last_cycle>>

\* global_brightness = brightness; if (global_brightness > 100) ... = 100;
ClampBrightness_off(brightness) == IF brightness >= 100 THEN 99 ELSE brightness

ClampBrightness(brightness) == IF brightness > 100 THEN 100 ELSE brightness

\* global_speed = speed; if (global_speed > 100) ... = 100;
\* if (global_speed < 1) ... = 1;
ClampSpeed(speed) ==
    LET s1 == IF speed > 100 THEN 100 ELSE speed
    IN  IF s1 < 1 THEN 1 ELSE s1

SetBrightnessCall(brightness) ==
    /\ FxCall("SetBrightness", <<brightness>>)
    /\ global_brightness' = ClampBrightness(brightness)
    /\ UNCHANGED <<pwmData, dmaVars, effects, rainbow_hue, breathe_val,
                   breathe_dir, global_speed, theater_frame, now, last_cycle>>

SetSpeedCall(speed) ==
    /\ FxCall("SetSpeed", <<speed>>)
    /\ global_speed' = ClampSpeed(speed)
    /\ UNCHANGED <<pwmData, dmaVars, effects, rainbow_hue, breathe_val,
                   breathe_dir, global_brightness, theater_frame, now,
                   last_cycle>>

WS2812B_SetBrightness ==
    \E brightness \in BrightnessArgs : SetBrightnessCall(brightness)

WS2812B_SetSpeed ==
    \E speed \in SpeedArgs : SetSpeedCall(speed)

\* led_effects.cycle_duration = ...; (main.c)
SetCycleDuration ==
    \E d \in DurationArgs :
        /\ FxCall("cycle_duration", <<d>>)
        /\ effects' = [effects EXCEPT !.cycle_duration = d]
        /\ UNCHANGED <<pwmData, dmaVars, rainbow_hue, breathe_val, breathe_dir,
                       global_brightness, global_speed, theater_frame, now, last_cycle>>

\* HAL_Delay() between two ticks (main.c)
MainDelay ==
    \E d \in DelayArgs :
        /\ FxCall("HAL_Delay", <<d>>)
        /\ now' = Add32(now, ToU32(d))
        /\ UNCHANGED <<pwmData, dmaVars, effects, rainbow_hue, breathe_val,
                       breathe_dir, global_brightness, global_speed, theater_frame, last_cycle>>

\* WS2812B_Clear(); WS2812B_Send(); called from main.c between two ticks
MainClear == nops < MaxCalls /\ WS2812B_Clear
MainSend == nops < MaxCalls /\ WS2812B_Send

WS2812B_Effects_Handle ==
    HandleCycle \/ HandleDraw \/ EffectSend \/ EffectDelay \/ HandleSend

\* a tick of the engine, at most MaxTicks of them
EngineTick == ticks < MaxTicks /\ HandleCycle

Next ==
    \/ EngineTick
    \/ HandleDraw
    \/ EffectSend
    \/ EffectDelay
    \/ HandleSend
    \/ WS2812B_Effects_Init
    \/ WS2812B_Effects_SetEffect
    \/ WS2812B_SetBrightness
    \/ WS2812B_SetSpeed
    \/ SetCycleDuration
    \/ MainDelay
    \/ MainClear
    \/ MainSend
    \/ HAL_TIM_PWM_PulseFinishedCallback

Init ==
    /\ InitStatics
    /\ pwmData = ZeroBuf
    /\ arg = NoArg
    /\ res = NoRes

Spec == Init /\ [][Next]_vars

\* ------------------------------------------------------------------------
\* The two knobs on their own: the first call after the start, made with
\* every 8-bit argument
\* ------------------------------------------------------------------------
Uint8 == 0 .. 255

KnobBrightness ==
    /\ lastOp = NoOp
    /\ \E brightness \in Uint8 : SetBrightnessCall(brightness)

KnobSpeed ==
    /\ lastOp = NoOp
    /\ \E speed \in Uint8 : SetSpeedCall(speed)

NextKnobs == KnobBrightness \/ KnobSpeed

SpecKnobs == Init /\ [][NextKnobs]_vars

\* ------------------------------------------------------------------------
\* A long run of ticks: the brightness is set or left alone, the engine is
\* initialised or an effect is selected by hand, then tick follows tick
\* ------------------------------------------------------------------------
RunBrightness ==
    /\ lastOp = NoOp
    /\ WS2812B_SetBrightness

RunStart ==
    /\ ticks = 0
    /\ (WS2812B_Effects_Init \/ WS2812B_Effects_SetEffect)

RunTick ==
    /\ lastOp.op \in {"Effects_Init", "Effects_SetEffect"}
    /\ ticks < MaxRunTicks
    /\ HandleCycle

NextRun ==
    \/ RunBrightness
    \/ RunStart
    \/ RunTick
    \/ HandleDraw
    \/ EffectSend
    \/ EffectDelay
    \/ HandleSend
    \/ HAL_TIM_PWM_PulseFinishedCallback

SpecRun == Init /\ [][NextRun]_vars

\* ------------------------------------------------------------------------
\* WS2812B_TheaterChase called directly (ws2812b_Effects.c), and the engine
\* held in EFFECT_THEATER_CHASE
\* ------------------------------------------------------------------------
COLOR_RGB == "COLOR_RGB"
COLOR_HSV == "COLOR_HSV"
COLOR_HSL == "COLOR_HSL"

MaxChaseCalls == 4

ChaseArgs == {<<COLOR_HSV, 120, 100, 50>>, <<COLOR_HSL, 300, 100, 50>>,
              <<COLOR_RGB, 255, 0, 128>>}

\* the colour the switch(colorspace) of WS2812B_TheaterChase puts on a pixel;
\* ws2812b_set_pixel_rgb takes its red as uint8_t
ChaseColour(colorspace, hue_or_red, sat_or_green, val_or_blue) ==
    IF colorspace = COLOR_HSV
    THEN hsv_to_rgb(hue_or_red, sat_or_green, val_or_blue)
    ELSE IF colorspace = COLOR_HSL
         THEN hsl_to_rgb(hue_or_red, sat_or_green, val_or_blue)
         ELSE RGB(U8(hue_or_red), sat_or_green, val_or_blue)

RECURSIVE TheaterChasePixels_noblank(_, _, _, _)
TheaterChasePixels_noblank(data, i, frame, c) ==
    IF i >= LED_NUM THEN data
    ELSE TheaterChasePixels_noblank(
             IF i % 3 = frame
             THEN SetPixelRGB(data, i, c.r, c.g, c.b)
             ELSE data,
             i + 1, frame, c)

\* WS2812B_TheaterChase, the pixel loop
RECURSIVE TheaterChasePixels(_, _, _, _)
TheaterChasePixels(data, i, frame, c) ==
    IF i >= LED_NUM THEN data
    ELSE TheaterChasePixels(
             IF i % 3 = frame
             THEN SetPixelRGB(data, i, c.r, c.g, c.b)
             ELSE SetPixelRGB(data, i, 0, 0, 0),
             i + 1, frame, c)

\* WS2812B_TheaterChase(colorspace, hue_or_red, sat_or_green, val_or_blue):
\* the pixel loop, the frame step, WS2812_Send() and HAL_Delay()
WS2812B_TheaterChase ==
    \E a \in ChaseArgs :
        LET c == ChaseColour(a[1], a[2], a[3], a[4])
        IN  /\ pc = "idle"
            /\ nops < MaxChaseCalls
            /\ nops' = nops + 1
            /\ lastOp' = [op |-> "TheaterChase", args |-> a]
            /\ pwmData' = TheaterChasePixels(pwmData, 0, theater_frame, c)
            /\ written' = [i \in 0 .. (LED_NUM - 1) |->
                              IF i % 3 = theater_frame THEN c ELSE RGB(0, 0, 0)]
            /\ theater_frame' = (theater_frame + 1) % 3
            /\ inflight' = TRUE
            /\ txData' = pwmData'
            /\ txLen' = WS2812B_DATA_SIZE + 50
            /\ sends' = sends + 1
            /\ now' = Add32(now, ToU32(TheaterChaseDelayMs))
            /\ UNCHANGED <<pc, effects, rainbow_hue, breathe_val, breathe_dir,
                           global_brightness, global_speed, last_cycle, ticks,
                           convVars>>

\* WS2812B_Effects_SetEffect(EFFECT_THEATER_CHASE) as the first call
TheaterSelect ==
    /\ lastOp = NoOp
    /\ WS2812B_Effects_SetEffect
    /\ effects'.current_effect = EFFECT_THEATER_CHASE

\* a tick of the engine while it is in EFFECT_THEATER_CHASE
TheaterTick ==
    /\ effects.current_effect = EFFECT_THEATER_CHASE
    /\ EngineTick

NextTheater ==
    \/ TheaterSelect
    \/ WS2812B_TheaterChase
    \/ TheaterTick
    \/ HandleDraw
    \/ HandleSend
    \/ HAL_TIM_PWM_PulseFinishedCallback

SpecTheater == Init /\ [][NextTheater]_vars

\* ------------------------------------------------------------------------
\* main(): the set-up, then for ever WS2812B_Effects_Handle(&led_effects);
\* HAL_Delay(50);
\* ------------------------------------------------------------------------
LoopDurations == {4000, 5000}
LOOP_DELAY == 50

\* a tick value that has not wrapped, as an integer
Tick32(a) == a[1] * 65536 + a[2]

\* the state when main() enters its loop: the buffer cleared and sent,
\* brightness 80, speed 40, the structure initialised, the tick still 0
InitLoop ==
    /\ pwmData = Clear(ZeroBuf)
    /\ inflight = TRUE
    /\ txData = Clear(ZeroBuf)
    /\ txLen = WS2812B_DATA_SIZE + 50
    /\ sends = 1
    /\ pc = "idle"
    /\ \E T \in LoopDurations :
          effects = [current_effect |-> EFFECT_RAINBOW_CHASE, hue |-> 0,
                     brightness |-> 50, breathe_direction |-> 1,
                     theater_frame |-> 0, effect_speed |-> 50,
                     auto_cycle |-> TRUE, cycle_duration |-> T]
    /\ rainbow_hue = 0
    /\ breathe_val = 50
    /\ breathe_dir = 1
    /\ global_brightness = 80
    /\ global_speed = 40
    /\ theater_frame = 0
    /\ now = ToU32(0)
    /\ last_cycle = ToU32(0)
    /\ ticks = 0
    /\ lastOp = NoOp
    /\ written = WriteAll(RGB(0, 0, 0))
    /\ nops = 0
    /\ arg = NoArg
    /\ res = NoRes

\* the loop is followed for MaxWindows cycle durations
InHorizon == Tick32(now) < MaxWindows * effects.cycle_duration

\* WS2812B_Effects_Handle(&led_effects); nops counts the loop's HAL_Delay
LoopTick ==
    /\ nops = ticks
    /\ InHorizon
    /\ HandleCycle

\* HAL_Delay(50);
LoopDelay ==
    /\ pc = "idle"
    /\ nops < ticks
    /\ nops' = nops + 1
    /\ lastOp' = [op |-> "HAL_Delay", args |-> <<LOOP_DELAY>>]
    /\ now' = Add32(now, ToU32(LOOP_DELAY))
    /\ UNCHANGED <<pc, effects, rainbow_hue, breathe_val, breathe_dir,
                   global_brightness, global_speed, theater_frame, last_cycle, ticks>>
    /\ UNCHANGED <<bufVars, dmaVars, convVars>>

NextLoop ==
    \/ LoopTick
    \/ HandleDraw
    \/ EffectSend
    \/ EffectDelay
    \/ HandleSend
    \/ LoopDelay
    \/ HAL_TIM_PWM_PulseFinishedCallback

SpecLoop == InitLoop /\ [][NextLoop]_vars

\* ------------------------------------------------------------------------
\* main()'s loop entered shortly before the tick counter wraps: after the
\* set-up a HAL_Delay(2^32 - lead) is made, then the loop runs across the wrap
\* ------------------------------------------------------------------------
WrapLeads == {1, 110, 2000, 3999, 6000}
MaxWrapWindows == 2

\* a tick value within 2^31 ms of the wrap, as its signed distance from it
SinceWrap(a) ==
    IF a[1] >= 32768 THEN (a[1] - 65536) * 65536 + a[2]
    ELSE a[1] * 65536 + a[2]

\* HAL_Delay(2^32 - lead), once, before the loop
LongDelay ==
    \E lead \in WrapLeads :
        /\ pc = "idle"
        /\ lastOp = NoOp
        /\ lastOp' = [op |-> "HAL_Delay", args |-> <<<<65535, 65536 - lead>>>>]
        /\ now' = Add32(now, <<65535, 65536 - lead>>)
        /\ UNCHANGED <<pc, effects, rainbow_hue, breathe_val, breathe_dir,
                       global_brightness, global_speed, theater_frame,
                       last_cycle, ticks, nops>>
        /\ UNCHANGED <<bufVars, dmaVars, convVars>>

\* WS2812B_Effects_Handle(&led_effects); in the loop
WrapTick ==
    /\ lastOp # NoOp
    /\ nops = ticks
    /\ SinceWrap(now) < MaxWrapWindows * effects.cycle_duration
    /\ HandleCycle

NextWrap ==
    \/ LongDelay
    \/ WrapTick
    \/ HandleDraw
    \/ EffectSend
    \/ EffectDelay
    \/ HandleSend
    \/ LoopDelay
    \/ HAL_TIM_PWM_PulseFinishedCallback

SpecWrap == InitLoop /\ [][NextWrap]_vars

\* ------------------------------------------------------------------------
\* Reading the buffer back
\* ------------------------------------------------------------------------
ResetIdx == WS2812B_DATA_SIZE .. (BUF_LEN - 1)
PixelIdx == 0 .. (LED_NUM - 1)
PixelOps == {"SetPixelRGB", "SetPixelHSV", "SetPixelHSL"}
ColorOps == {"SetColorRGB", "SetColorHSV", "SetColorHSL"}

TailZero(data) == \A k \in ResetIdx : data[k] = 0

OnlyBitCodes(data, i) ==
    \A k \in 0 .. 23 : data[24 * i + k] \in {HIGH_CODE, LOW_CODE}

\* inverse of the encoding: high code -> 1, anything else -> 0, MSB first
RECURSIVE DecodeFrom(_, _, _)
DecodeFrom(data, i, k) ==
    IF k > 23 THEN 0
    ELSE (IF data[24 * i + k] = HIGH_CODE THEN 2 ^ (23 - k) ELSE 0)
         + DecodeFrom(data, i, k + 1)

Decode(data, i) == DecodeFrom(data, i, 0)

IsCall == nops' # nops

\* ------------------------------------------------------------------------
\* C3.  From the zero-initialised buffer, after any sequence of pixel and
\* strip setters (any index, in range or not) and clears, the last 50
\* entries of pwmData are all 0.
\* ------------------------------------------------------------------------
C3_ResetRegionZero == TailZero(pwmData)

C3_Witness ==
    /\ nops >= 2
    /\ lastOp.op \in PixelOps
    /\ lastOp.args[1] >= LED_NUM
    /\ \E i \in PixelIdx : written[i] # NoColor /\ written[i] # RGB(0, 0, 0)
    /\ TailZero(pwmData)

\* ------------------------------------------------------------------------
\* C4.  Every pixel that has been written holds, in pwmData[24i .. 24i+23],
\* the MSB-first encoding (58 for 1, 29 for 0) of (G<<16)|(R<<8)|B of the
\* colour last written to it; writes to other pixels do not disturb it.
\* ------------------------------------------------------------------------
C4_PixelHoldsLastWritten ==
    \A i \in PixelIdx :
        written[i] # NoColor =>
            /\ OnlyBitCodes(pwmData, i)
            /\ Decode(pwmData, i)
                 = written[i].g * 65536 + written[i].r * 256 + written[i].b

C4_Witness ==
    /\ lastOp.op \in PixelOps
    /\ lastOp.args[1] = LED_NUM - 1
    /\ written[1] # NoColor
    /\ written[LED_NUM - 1] # NoColor
    /\ written[1] # written[LED_NUM - 1]
    /\ Decode(pwmData, 1) # Decode(pwmData, LED_NUM - 1)

\* ------------------------------------------------------------------------
\* C5.  A per-pixel setter (RGB, HSV or HSL) called with an index >= LED_NUM
\* leaves every entry of pwmData unchanged.  (The setters return void: there
\* is no error channel.)
\* ------------------------------------------------------------------------
C5_OutOfRangeNoOp ==
    [][(IsCall /\ lastOp'.op \in PixelOps /\ lastOp'.args[1] >= LED_NUM)
          => pwmData' = pwmData]_vars

C5_Witness ==
    /\ lastOp.op \in PixelOps
    /\ lastOp.args[1] = 65535
    /\ pwmData # ZeroBuf

\* ------------------------------------------------------------------------
\* C6 (as claimed).  From arbitrary buffer contents, every mutating
\* operation, a single in-range per-pixel setter included, leaves the reset
\* region all zero.
\* ------------------------------------------------------------------------
C6_Original ==
    (\/ lastOp.op \in ColorOps \cup {"Clear"}
     \/ (lastOp.op \in PixelOps /\ lastOp.args[1] < LED_NUM))
        => TailZero(pwmData)

\* C6 (amended).  From arbitrary buffer contents, the strip setters
\* (SetColorRGB/HSV/HSL) and Clear leave the reset region all zero; a
\* per-pixel setter leaves the reset region exactly as it found it.
C6_ResetRegionAfterMutation ==
    [][IsCall =>
          /\ (lastOp'.op \in ColorOps \cup {"Clear"} => TailZero(pwmData'))
          /\ (lastOp'.op \in PixelOps =>
                 \A k \in ResetIdx : pwmData'[k] = pwmData[k])]_vars

C6_Witness ==
    /\ lastOp.op \in PixelOps
    /\ lastOp.args[1] < LED_NUM
    /\ written[lastOp.args[1]] # NoColor
    /\ ~TailZero(pwmData)

\* ------------------------------------------------------------------------
\* C7.  From any buffer contents, Clear leaves every pixel decoding to
\* (0,0,0) (all 24*LED_NUM codes are 29) and the 50 reset codes 0; and
\* SetColorRGB(r,g,b) leaves what SetPixelRGB(i,r,g,b) leaves in each pixel
\* i, with the reset region zeroed.
\* ------------------------------------------------------------------------
PerPixelThenZero(data, r, g, b) ==
    [k \in BufIdx |->
        IF k >= WS2812B_DATA_SIZE THEN 0
        ELSE SetPixelRGB(data, k \div 24, r, g, b)[k]]

C7_ClearAndSetAll ==
    [][IsCall =>
          /\ (lastOp'.op = "Clear" =>
                 /\ \A k \in BufIdx :
                       pwmData'[k] = IF k < 24 * LED_NUM THEN 29 ELSE 0
                 /\ \A i \in PixelIdx : Decode(pwmData', i) = 0)
          /\ (lastOp'.op = "SetColorRGB" =>
                 pwmData' = PerPixelThenZero(pwmData, lastOp'.args[1],
                                             lastOp'.args[2], lastOp'.args[3]))
      ]_vars

C7_Witness ==
    /\ nops = 2
    /\ txLen > 0
    /\ ~TailZero(txData)
    /\ lastOp.op \in {"Clear", "SetColorRGB"}
    /\ TailZero(pwmData)

\* ------------------------------------------------------------------------
\* C8.  For hue in [0,360), saturation in [1,100], value in [0,100],
\* hsv_to_rgb returns the entry of the sector table selected by hue/60,
\* computed with integer division; with the three primary fixtures.
\* ------------------------------------------------------------------------
HsvTable(h, s, v) ==
    LET V == (v * 255) \div 100
        S == (s * 255) \div 100
        f == ((h % 60) * 255) \div 60
        p == (V * (255 - S)) \div 255
        q == (V * (255 - f)) \div 255
        t == (V * f) \div 255
        table == << <<V, t, p>>, <<q, V, p>>, <<p, V, t>>,
                    <<p, q, V>>, <<t, p, V>>, <<V, p, q>> >>
        e == table[(h \div 60) + 1]
    IN  RGB(e[1], e[2], e[3])

C8_HsvSectorTable ==
    arg.fn = "hsv" =>
        /\ (arg.h < 360 /\ arg.s >= 1 /\ arg.s <= 100 /\ arg.x <= 100)
              => res = HsvTable(arg.h, arg.s, arg.x)
        /\ (arg.h = 0 /\ arg.s = 100 /\ arg.x = 100) => res = RGB(255, 0, 0)
        /\ (arg.h = 120 /\ arg.s = 100 /\ arg.x = 100) => res = RGB(0, 255, 0)
        /\ (arg.h = 240 /\ arg.s = 100 /\ arg.x = 100) => res = RGB(0, 0, 255)

C8_Witness ==
    /\ arg.fn = "hsv"
    /\ arg.h = 240 /\ arg.s = 100 /\ arg.x = 100
    /\ res = RGB(0, 0, 255)

\* ------------------------------------------------------------------------
\* C9 (as claimed).  SetColorHSV(120,100,50) followed by Send hands the
\* transport 24*8+50 codes in which every pixel decodes to RGB (0,128,0) and
\* the trailing 50 codes are zero.
\* ------------------------------------------------------------------------
HandsOver(r, g, b) ==
    /\ txLen' = 24 * 8 + 50
    /\ \A i \in PixelIdx :
          /\ OnlyBitCodes(txData', i)
          /\ Decode(txData', i) = g * 65536 + r * 256 + b
    /\ TailZero(txData')

IsGreenThenSend ==
    /\ lastOp = [op |-> "SetColorHSV", args |-> <<120, 100, 50>>]
    /\ IsCall
    /\ lastOp'.op = "Send"

C9_Original == [][IsGreenThenSend => HandsOver(0, 128, 0)]_vars

\* C9 (amended).  ... every pixel decodes to RGB (0,127,0) ...
C9_GreenFrameHandedOver == [][IsGreenThenSend => HandsOver(0, 127, 0)]_vars

C9_Witness ==
    /\ lastOp.op = "Send"
    /\ nops = 2
    /\ txLen = 24 * 8 + 50
    /\ \A i \in PixelIdx : Decode(txData, i) = 127 * 65536
    /\ TailZero(txData)

\* ------------------------------------------------------------------------
\* C10.  For hue in [0,1080) and saturation, value in [0,100] the HSV
\* conversion gives the same RGB for hue as for hue mod 360.
\* ------------------------------------------------------------------------
C10_HsvHueWrap ==
    (arg.fn = "hsv" /\ arg.s <= 100 /\ arg.x <= 100)
        => res = hsv_to_rgb(arg.h % 360, arg.s, arg.x)

C10_Witness ==
    /\ arg.fn = "hsv"
    /\ arg.h >= 720
    /\ arg.s > 0
    /\ res.r # res.g
    /\ res = hsv_to_rgb(arg.h - 720, arg.s, arg.x)

\* ------------------------------------------------------------------------
\* C1 (as claimed).  WS2812B_Send never starts a transmission while an
\* earlier one has not had its completion callback.
\* ------------------------------------------------------------------------
C1_Original == [][sends' # sends => ~inflight]_vars

\* ------------------------------------------------------------------------
\* C2 (as claimed).  While a transmission is in flight, pwmData equals its
\* contents at the start of that transmission: no setter, clear or send
\* issued before the completion callback alters it.
\* ------------------------------------------------------------------------
C2_Original == inflight => pwmData = txData

\* ------------------------------------------------------------------------
\* C11 (as claimed).  For hue in [0,1080) and saturation, lightness in
\* [0,100] the HSL conversion gives the same RGB for hue as for hue mod 360.
\* ------------------------------------------------------------------------
C11_Original ==
    (arg.fn = "hsl" /\ arg.s <= 100 /\ arg.x <= 100)
        => res = hsl_to_rgb(arg.h % 360, arg.s, arg.x)

\* ------------------------------------------------------------------------
\* C12 (as claimed).  For every hue and for saturation and value (HSV) or
\* saturation and lightness (HSL) in [0,200], the conversion gives the RGB
\* it gives for the same arguments clamped to at most 100.
\* ------------------------------------------------------------------------
Clamp100(x) == IF x > 100 THEN 100 ELSE x

C12_Original ==
    /\ (arg.fn = "hsv" /\ arg.s <= 200 /\ arg.x <= 200)
          => res = hsv_to_rgb(arg.h, Clamp100(arg.s), Clamp100(arg.x))
    /\ (arg.fn = "hsl" /\ arg.s <= 200 /\ arg.x <= 200)
          => res = hsl_to_rgb(arg.h, Clamp100(arg.s), Clamp100(arg.x))

\* ------------------------------------------------------------------------
\* C13.  With saturation 0 and a value (HSV) or lightness (HSL) in [0,100],
\* the conversion returns R = G = B = value * 255 / 100 (integer division),
\* whatever the hue.
\* ------------------------------------------------------------------------
C13_Achromatic ==
    (arg.fn \in {"hsv", "hsl"} /\ arg.s = 0 /\ arg.x <= 100)
        => LET grey == (arg.x * 255) \div 100
           IN  res = RGB(grey, grey, grey)

C13_Witness ==
    /\ arg.fn = "hsl"
    /\ arg.h = 777
    /\ arg.s = 0
    /\ arg.x = 50
    /\ res = RGB(127, 127, 127)

\* ------------------------------------------------------------------------
\* C14.  For hue in [0,360) and saturation, value, lightness in [0,100] no
\* intermediate of hsv_to_rgb or hsl_to_rgb exceeds its declared width
\* (8 bits for v255, s255, l255, h255, f, p, q, t and the result of hue2rgb,
\* 16 bits for temp_q), so every output channel is the value the formula
\* gives in unbounded integers, within [0,255].
\* ------------------------------------------------------------------------
HsvMath(h, s, v) ==
    IF s = 0
    THEN LET grey == (v * 255) \div 100 IN RGB(grey, grey, grey)
    ELSE HsvTable(h, s, v)

HslMath(h, s, l) ==
    IF s = 0
    THEN LET grey == (l * 255) \div 100 IN RGB(grey, grey, grey)
    ELSE LET H  == (h * 255) \div 360
             L  == (l * 255) \div 100
             S  == (s * 255) \div 100
             TQ == IF l < 50 THEN L * (255 + S) ELSE (L + S) * 255 - L * S
             Q  == TQ \div 255
             P  == IF l < 50 THEN (2 * L * (255 - S)) \div 255
                   ELSE IF 2 * L > 255 THEN 2 * L - Q ELSE 0
         IN  RGB(hue2rgb_wide(P, Q, (H + 85) % 256),
                 hue2rgb_wide(P, Q, H),
                 hue2rgb_wide(P, Q, (H + 171) % 256))

InRangeArgs == arg.h < 360 /\ arg.s <= 100 /\ arg.x <= 100

C14_NoNarrowing ==
    /\ (arg.fn = "hsv" /\ InRangeArgs) =>
          /\ \A w \in hsv_locals8(arg.h, arg.s, arg.x) : w \in 0 .. 255
          /\ res = HsvMath(arg.h, arg.s, arg.x)
          /\ \A c \in {res.r, res.g, res.b} : c \in 0 .. 255
    /\ (arg.fn = "hsl" /\ InRangeArgs) =>
          /\ \A w \in hsl_locals8(arg.h, arg.s, arg.x) : w \in 0 .. 255
          /\ \A w \in hsl_locals16(arg.h, arg.s, arg.x) : w \in 0 .. 65535
          /\ res = HslMath(arg.h, arg.s, arg.x)
          /\ \A c \in {res.r, res.g, res.b} : c \in 0 .. 255

\* the largest temp_q there is, 65025, and a full-scale channel
C14_Witness ==
    /\ arg.fn = "hsl"
    /\ arg.h = 359 /\ arg.s = 100 /\ arg.x = 50
    /\ 65025 \in hsl_locals16(arg.h, arg.s, arg.x)
    /\ res = HslMath(arg.h, arg.s, arg.x)
    /\ res.r = 255

\* ------------------------------------------------------------------------
\* C15 (as claimed).  HSL(0,100,50) yields a colour whose red channel is
\* strictly the largest and strictly below 255; HSL(240,100,50) yields a
\* colour whose blue channel is strictly the largest and strictly below 255.
\* ------------------------------------------------------------------------
IsHslFixture(h) ==
    arg.fn = "hsl" /\ arg.h = h /\ arg.s = 100 /\ arg.x = 50

CyclicSuccessor ==
    <<EFFECT_RAINBOW_CHASE, EFFECT_FIRE, EFFECT_BREATHE,
      EFFECT_THEATER_CHASE, EFFECT_TWINKLE, EFFECT_STATIC_COLOR>>

IsCleared(data) ==
    /\ \A k \in 0 .. (WS2812B_DATA_SIZE - 1) : data[k] = LOW_CODE
    /\ TailZero(data)

TickBegins == pc = "idle" /\ pc' = "draw"

OrderFromInit ==
    <<EFFECT_RAINBOW_CHASE, EFFECT_FIRE, EFFECT_BREATHE,
      EFFECT_THEATER_CHASE, EFFECT_TWINKLE, EFFECT_STATIC_COLOR,
      EFFECT_RAINBOW_CHASE>>

Epsilon == (150 - global_speed) + LOOP_DELAY

C18_ManualSelect ==
    [][/\ (IsCall /\ lastOp'.op = "Effects_SetEffect") =>
             /\ effects'.current_effect = lastOp'.args[1]
             /\ ~effects'.auto_cycle
             /\ IsCleared(pwmData')
       /\ (~effects.auto_cycle /\ ~IsCall) =>
             /\ effects'.current_effect = effects.current_effect
             /\ ~effects'.auto_cycle]_vars

\* TheaterChase selected by hand, then a wait of 5001 ms, then a tick that
\* has drawn and is about to send: the effect is still TheaterChase
C18_Witness ==
    /\ pc = "handle_send"
    /\ lastOp = [op |-> "HAL_Delay", args |-> <<5001>>]
    /\ nops = 2
    /\ ~effects.auto_cycle
    /\ effects.current_effect = EFFECT_THEATER_CHASE
    /\ Gt32(Sub32(now, last_cycle), ToU32(effects.cycle_duration))

\* ------------------------------------------------------------------------
\* C19.  After WS2812B_Effects_Init the structure has current_effect =
\* RainbowChase, auto_cycle = true, cycle_duration = 5000, hue = 0 and
\* theater_frame = 0, whatever it held before.
\* ------------------------------------------------------------------------
C19_InitValues ==
    [][(IsCall /\ lastOp'.op = "Effects_Init") =>
          /\ effects'.current_effect = EFFECT_RAINBOW_CHASE
          /\ effects'.auto_cycle
          /\ effects'.cycle_duration = 5000
          /\ effects'.hue = 0
          /\ effects'.theater_frame = 0]_vars

\* one tick of an effect selected by hand (a single Send, no rainbow drawn),
\* then WS2812B_Effects_Init
C19_Witness ==
    /\ pc = "idle"
    /\ lastOp.op = "Effects_Init"
    /\ nops = 2
    /\ ticks = 1
    /\ sends = 1
    /\ rainbow_hue = 0
    /\ effects.current_effect = EFFECT_RAINBOW_CHASE
    /\ effects.auto_cycle
    /\ effects.cycle_duration = 5000
    /\ effects.hue = 0
    /\ effects.theater_frame = 0

\* ------------------------------------------------------------------------
\* C20 (as claimed).  For every speed left by WS2812B_SetSpeed, the delay
\* computed by every effect (100 - speed for Rainbow, RainbowChase, Fire and
\* PastelWave, 150 - speed for Breathe, 200 - 2 * speed for TheaterChase) is
\* strictly positive.
\* ------------------------------------------------------------------------
C20_Original ==
    lastOp.op = "SetSpeed" =>
        /\ EffectDelayMs(EFFECT_RAINBOW_CHASE) > 0
        /\ EffectDelayMs(EFFECT_FIRE) > 0
        /\ EffectDelayMs(EFFECT_BREATHE) > 0
        /\ RainbowChaseDelayMs > 0
        /\ PastelWaveDelayMs > 0
        /\ TheaterChaseDelayMs > 0

\* ------------------------------------------------------------------------
\* C21.  For every 8-bit argument x, after WS2812B_SetBrightness(x) the
\* global brightness is min(x, 100) and after WS2812B_SetSpeed(x) the global
\* speed is max(1, min(x, 100)); in every reachable state the brightness is
\* in [0,100] and the speed in [1,100].
\* ------------------------------------------------------------------------
MinOf(a, b) == IF a < b THEN a ELSE b
MaxOf(a, b) == IF a > b THEN a ELSE b

C21_KnobClamps ==
    /\ lastOp.op = "SetBrightness" =>
          global_brightness = MinOf(lastOp.args[1], 100)
    /\ lastOp.op = "SetSpeed" =>
          global_speed = MaxOf(1, MinOf(lastOp.args[1], 100))
    /\ global_brightness \in 0 .. 100
    /\ global_speed \in 1 .. 100

\* the lower clamp of the speed has acted
C21_Witness ==
    /\ lastOp = [op |-> "SetSpeed", args |-> <<0>>]
    /\ global_speed = 1
    /\ global_brightness = 100

\* ------------------------------------------------------------------------
\* C22 (as claimed).  Each call of WS2812B_Effects_Handle starts exactly one
\* transmission, as the last action of the tick, in every one of the six
\* effect states: a transmission started inside a tick ends the tick.
\* ------------------------------------------------------------------------
C22_Original ==
    [][(pc # "idle" /\ sends' # sends) => pc' = "idle"]_vars

\* ------------------------------------------------------------------------
\* C23.  Breathe ramp: in every state reached by repeated WS2812B_Breathe
\* calls from the initial phase (value 50, direction +1) the breathe value
\* stays within [10,90], changes by exactly 1 per call, and the direction is
\* inverted exactly when the value reaches 90 or 10.
\* ------------------------------------------------------------------------
IsBreatheCall ==
    pc = "draw" /\ pc' # "draw" /\ effects.current_effect = EFFECT_BREATHE

C23_BreatheRamp ==
    [][/\ IsBreatheCall =>
             /\ breathe_val' = breathe_val + breathe_dir
             /\ breathe_dir \in {-1, 1}
             /\ (breathe_dir' = -breathe_dir) <=> (breathe_val' \in {10, 90})
             /\ (breathe_dir' = breathe_dir) <=> (breathe_val' \notin {10, 90})
       /\ ~IsBreatheCall => UNCHANGED <<breathe_val, breathe_dir>>
       /\ breathe_val' \in 10 .. 90]_vars

\* up to 90 in 40 calls, down to 10 in 80 more, and turned upwards again
C23_Witness ==
    /\ pc = "idle"
    /\ lastOp = [op |-> "Effects_SetEffect", args |-> <<EFFECT_BREATHE>>]
    /\ ticks = 120
    /\ breathe_val = 10
    /\ breathe_dir = 1

\* ------------------------------------------------------------------------
\* C24.  StaticColor tick: a tick of WS2812B_Effects_Handle in StaticColor
\* writes HSV(hue, 100, global brightness) to all LED_NUM pixels and then
\* sets hue to (hue + 1) mod 360, leaving current_effect, theater_frame and
\* auto_cycle unchanged.
\* ------------------------------------------------------------------------
ColourWord(c) == c.g * 65536 + c.r * 256 + c.b

AllPixelsAre(data, c) ==
    \A i \in PixelIdx : OnlyBitCodes(data, i) /\ Decode(data, i) = ColourWord(c)

Draws == pc = "draw" /\ pc' # "draw"
TickEnds == pc = "handle_send" /\ pc' = "idle"
InsideTick == pc \notin {"idle", "handle_send"} /\ pc' # pc

C24_StaticColorTick ==
    [][effects.current_effect = EFFECT_STATIC_COLOR =>
          /\ Draws =>
                AllPixelsAre(pwmData',
                             hsv_to_rgb(effects.hue, 100, global_brightness))
          /\ InsideTick => effects' = effects
          /\ TickEnds =>
                effects' = [effects EXCEPT !.hue = (effects.hue + 1) % 360]]_vars

\* the hue has gone once round the circle and the frame of hue 359 is in
\* the buffer at brightness 80
C24_Witness ==
    /\ pc = "idle"
    /\ effects.current_effect = EFFECT_STATIC_COLOR
    /\ ticks = 360
    /\ effects.hue = 0
    /\ global_brightness = 80
    /\ AllPixelsAre(pwmData, hsv_to_rgb(359, 100, 80))

\* ------------------------------------------------------------------------
\* C25.  RainbowChase tick: a tick in RainbowChase writes to each pixel i in
\* 0..LED_NUM-1 the HSV colour of hue (base + i*360/LED_NUM) mod 360,
\* saturation 100 and value = global brightness, then advances the rolling
\* base hue by 2 modulo 360.
\* ------------------------------------------------------------------------
C25_RainbowChaseTick ==
    [][(effects.current_effect = EFFECT_RAINBOW_CHASE /\ Draws) =>
          /\ \A i \in PixelIdx :
                /\ OnlyBitCodes(pwmData', i)
                /\ Decode(pwmData', i) =
                      ColourWord(hsv_to_rgb(
                          (rainbow_hue + ((i * 360) \div LED_NUM)) % 360,
                          100, global_brightness))
          /\ rainbow_hue' = (rainbow_hue + 2) % 360]_vars

\* after 180 ticks the base hue is back at 0; the last frame was drawn from
\* base 358, so pixel 7 has hue (358 + 315) mod 360 = 313
C25_Witness ==
    /\ pc = "idle"
    /\ lastOp = [op |-> "Effects_SetEffect", args |-> <<EFFECT_RAINBOW_CHASE>>]
    /\ ticks = 180
    /\ rainbow_hue = 0
    /\ global_brightness = 80
    /\ Decode(pwmData, 7) = ColourWord(hsv_to_rgb(313, 100, 80))
    /\ Decode(pwmData, 0) = ColourWord(hsv_to_rgb(358, 100, 80))

\* C26: a call of WS2812B_TheaterChase made with frame f leaves, on every
\* pixel i of 0 .. LED_NUM-1, the active colour if i mod 3 = f and (0,0,0)
\* otherwise, and steps the frame to (f + 1) mod 3; a tick of the engine in
\* EFFECT_THEATER_CHASE steps the engine's frame from f to (f + 1) mod 3.
IsTheaterCall == nops' # nops /\ lastOp'.op = "TheaterChase"

C26_TheaterChase ==
    [][/\ IsTheaterCall =>
            /\ \A i \in PixelIdx :
                  /\ OnlyBitCodes(pwmData', i)
                  /\ Decode(pwmData', i) =
                        IF i % 3 = theater_frame
                        THEN ColourWord(ChaseColour(lastOp'.args[1],
                                 lastOp'.args[2], lastOp'.args[3],
                                 lastOp'.args[4]))
                        ELSE 0
            /\ theater_frame' = (theater_frame + 1) % 3
            /\ theater_frame' \in 0 .. 2
       /\ (effects.current_effect = EFFECT_THEATER_CHASE /\ TickEnds) =>
            effects'.theater_frame = (effects.theater_frame + 1) % 3]_vars

\* three direct calls and three ticks have each brought their frame counter
\* round 0,1,2,0; the last call, with frame 2, lit pixels 2 and 5 only
C26_Witness ==
    /\ lastOp.op = "TheaterChase"
    /\ lastOp.args = <<COLOR_HSV, 120, 100, 50>>
    /\ nops = 4
    /\ theater_frame = 0
    /\ ticks = 3
    /\ pc = "idle"
    /\ effects.theater_frame = 0
    /\ Decode(pwmData, 2) = ColourWord(hsv_to_rgb(120, 100, 50))
    /\ Decode(pwmData, 5) = ColourWord(hsv_to_rgb(120, 100, 50))
    /\ \A i \in PixelIdx \ {2, 5} : Decode(pwmData, i) = 0

\* C27: for saturation in 1..100 and lightness in 0..100, with
\* L = lightness*255/100 and S = saturation*255/100, hsl_to_rgb uses
\* q = L*(255+S)/255 when lightness < 50 and q = L + S - L*S/255 otherwise
\* (the quotient taken either of L*S alone or of the whole expression over
\* 255), and p = 2*L - q in both branches.
\* At hue 0 the red output is q and the green and blue outputs are p.
HslEndpointsShown ==
    (arg.fn = "hsl" /\ arg.h = 0 /\ arg.s \in 1 .. 100 /\ arg.x \in 0 .. 100) =>
        /\ res.r = hsl_q(arg.s, arg.x)
        /\ res.g = hsl_p(arg.s, arg.x)
        /\ res.b = hsl_p(arg.s, arg.x)

C27_Original ==
    (arg.fn = "hsl" /\ arg.s \in 1 .. 100 /\ arg.x \in 0 .. 100) =>
        LET L == (arg.x * 255) \div 100
            S == (arg.s * 255) \div 100
            q == hsl_q(arg.s, arg.x)
            p == hsl_p(arg.s, arg.x)
        IN  /\ arg.x < 50 => q = (L * (255 + S)) \div 255
            /\ arg.x >= 50 => q \in {L + S - ((L * S) \div 255),
                                     ((L + S) * 255 - L * S) \div 255}
            /\ p = 2 * L - q

\* C28: once the engine has been initialised or an effect selected, in every
\* state reached by ticks of WS2812B_Effects_Handle and calls of
\* WS2812B_Effects_SetEffect with one of the six effects, current_effect is
\* one of the six declared effects, the engine hue and the rolling rainbow
\* base hue are in 0 .. 359, and theater_frame is in 0 .. 2.
EngineStarted == lastOp.op \in {"Effects_Init", "Effects_SetEffect"}

C28_PhaseInvariants ==
    EngineStarted =>
        /\ effects.current_effect \in
              {EFFECT_STATIC_COLOR, EFFECT_RAINBOW_CHASE, EFFECT_FIRE,
               EFFECT_BREATHE, EFFECT_THEATER_CHASE, EFFECT_TWINKLE}
        /\ effects.hue \in 0 .. 359
        /\ rainbow_hue \in 0 .. 359
        /\ effects.theater_frame \in 0 .. 2
        /\ theater_frame \in 0 .. 2

\* the engine hue has just wrapped in a theater chase selected after
\* WS2812B_Effects_Init: 72 ticks of +5 from 0, the frame back at 0
C28_Witness ==
    /\ lastOp = [op |-> "Effects_SetEffect", args |-> <<EFFECT_THEATER_CHASE>>]
    /\ nops = 2
    /\ effects.brightness = 50
    /\ pc = "idle"
    /\ ticks = 72
    /\ effects.hue = 0
    /\ effects.theater_frame = 0

\* C29: WS2812B_Effects_Init restarts the transition timer: the tick that
\* follows a call of WS2812B_Effects_Init directly, no time having passed
\* since the call, leaves the engine in EFFECT_RAINBOW_CHASE, whatever the
\* tick counter read when Init was called.
C29_Original ==
    [][(TickBegins /\ lastOp.op = "Effects_Init" /\ ticks = 0) =>
          effects'.current_effect = EFFECT_RAINBOW_CHASE]_vars

\* C30: the elapsed-time test of the auto cycle is right across the wrap of
\* the 32-bit tick counter: a tick makes a transition exactly when the true
\* time since the last transition exceeds cycle_duration, also when the
\* counter has gone from 2^32-1 round to 0 in between.
\* Before the first transition last_cycle is its boot value 0 and the true
\* elapsed time is the whole 2^32 - lead, more than any cycle duration here.
TrueElapsedExceeds(T) ==
    IF ticks = 0 /\ last_cycle = ToU32(0) /\ now[1] = 65535
    THEN TRUE
    ELSE SinceWrap(now) - SinceWrap(last_cycle) > T

C30_WrapSafe ==
    [][TickBegins =>
          /\ (effects'.current_effect # effects.current_effect)
                <=> TrueElapsedExceeds(effects.cycle_duration)
          /\ (last_cycle' = now) <=> TrueElapsedExceeds(effects.cycle_duration)
          /\ (last_cycle' # now) => last_cycle' = last_cycle]_vars

\* a transition has just fired at a tick after the wrap, ending a window
\* that began before it
C30_Witness ==
    /\ pc = "draw"
    /\ last_cycle = now
    /\ now[1] = 0
    /\ now[2] < effects.cycle_duration
    /\ ticks > 0
    /\ effects.current_effect = EFFECT_BREATHE

\* C31: given that the transport calls the completion callback after every
\* start, every transmission started by WS2812B_Send is eventually followed
\* by the stop of the transport; the stop comes from the callback for TIM3
\* only (no call of the API and no callback of another timer stops it), and
\* once stopped the transport starts again only by a new WS2812B_Send, so no
\* frame is repeated without a Send.
TransportStops == inflight /\ ~inflight'

C31_StopFollowsSend ==
    /\ \A n \in 1 .. (MaxOps + 1) :
          (sends = n /\ inflight) ~> (~inflight /\ sends >= n)
    /\ [][TransportStops =>
             /\ ~IsCall
             /\ sends' = sends
             /\ UNCHANGED <<txData, txLen, pwmData>>]_vars
    /\ [][(IsCall /\ lastOp'.op = "PulseFinishedCallback") =>
             UNCHANGED <<inflight, txData, txLen, sends, pwmData>>]_vars
    /\ [][(~inflight /\ inflight') =>
             /\ IsCall
             /\ lastOp'.op = "Send"
             /\ sends' = sends + 1
             /\ txData' = pwmData]_vars
    /\ [][(sends' # sends) => (IsCall /\ lastOp'.op = "Send")]_vars

\* the strip was filled and sent twice, each transmission stopped by its
\* callback
C31_Witness ==
    /\ ~inflight
    /\ sends = 2
    /\ lastOp.op = "Send"
    /\ nops = 3
    /\ txData = pwmData
    /\ txData = SetColorRGB(ZeroBuf, 255, 0, 128)

====
